---- MODULE Spec2Model ----
(***************************************************************************)
(* Model of the two presentational components of the SWE-agent frontend:   *)
(*   Message       src/sweagent/frontend/src/components/Message.js         *)
(*   AgentMessage  src/unnamed/part_000                                    *)
(* Each is a function from props {item, handleMouseEnter, isHighlighted,   *)
(* feedRef} to a <div> with a computed className, an onMouseEnter closure  *)
(* and child elements.  JavaScript strings are modelled as sequences of    *)
(* one-character strings so that template-literal concatenation and        *)
(* splitting a class name into tokens are computed, not assumed.           *)
(***************************************************************************)
EXTENDS Integers, Sequences, FiniteSets

\* ------------------------------------------------------------------- state
VARIABLES
    kind,       \* which component is mounted
    props,      \* the props of the latest render
    view,       \* the element tree the latest render returned
    calls,      \* handleMouseEnter invocations since the latest render
    nCalls,     \* total handleMouseEnter invocations
    nTriggers   \* total pointer-enter events on the block

vars == <<kind, props, view, calls, nCalls, nTriggers>>

\* ------------------------------------------------------------------ bounds
\* Largest small step index enumerated for item.step (0..MaxStep).
MaxStep == 1
\* Number of pointer-enter events explored in one behaviour.
MaxTriggers == 2

\* ------------------------------------------------------- JavaScript values
\* A JavaScript value: tag t, numeric payload n, string payload s.
Undefined == [t |-> "undefined", n |-> 0, s |-> <<>>]
Null == [t |-> "null", n |-> 0, s |-> <<>>]
Num(k) == [t |-> "number", n |-> k, s |-> <<>>]
Str(cs) == [t |-> "string", n |-> 0, s |-> cs]

\* String literals used by the components and by the enumerated inputs.
SP == <<" ">>
MESSAGE == <<"m","e","s","s","a","g","e">>
STEP == <<"s","t","e","p">>
HIGHLIGHT == <<"h","i","g","h","l","i","g","h","t">>
UNDEFINED == <<"u","n","d","e","f","i","n","e","d">>
NULL == <<"n","u","l","l">>
INFO == <<"i","n","f","o">>
DIGITS == <<"0","1","2","3","4","5","6","7","8","9">>

\* Number::toString for integers (decimal, leading minus sign).
RECURSIVE NatToString(_)
NatToString(k) ==
    IF k < 10 THEN <<DIGITS[k + 1]>>
    ELSE NatToString(k \div 10) \o <<DIGITS[(k % 10) + 1]>>

NumberToString(k) == IF k < 0 THEN <<"-">> \o NatToString(-k) ELSE NatToString(k)

\* ToString as applied by a template-literal substitution ${v}.
ToString(v) ==
    CASE v.t = "undefined" -> UNDEFINED
      [] v.t = "null" -> NULL
      [] v.t = "number" -> NumberToString(v.n)
      [] v.t = "string" -> v.s

\* ToBoolean, as applied by the left operand of &&.
ToBoolean(v) ==
    CASE v.t = "undefined" -> FALSE
      [] v.t = "null" -> FALSE
      [] v.t = "number" -> v.n # 0
      [] v.t = "string" -> v.s # <<>>

\* Text a JSX expression child {v} contributes: undefined, null and the
\* empty string render nothing; strings and numbers render their text.
ChildText(v) ==
    CASE v.t = "undefined" -> <<>>
      [] v.t = "null" -> <<>>
      [] v.t = "number" -> NumberToString(v.n)
      [] v.t = "string" -> v.s

\* ------------------------------------------------------------ input domain
\* Reading a property the item object does not have yields undefined.
Steps == (0 .. MaxStep) \cup {10}
Formats == {Undefined, Str(INFO), Str(HIGHLIGHT), Str(STEP \o <<"1">>)}
StepValues == {Undefined, Null} \cup {Num(k) : k \in Steps}
Titles == {Undefined, Str(<<>>), Str(<<"S","t","e","p"," ","2">>)}
Messages == {Undefined, Str(<<"R","u","n">>)}
Items == [format : Formats, step : StepValues, title : Titles, message : Messages]
FeedRefs == {"feedRefA", "feedRefB"}
Props == [item : Items, isHighlighted : BOOLEAN, feedRef : FeedRefs]
Kinds == {"Message", "AgentMessage"}

\* ----------------------------------------------------------------- Message
\* Variant of stepClass without the null test.
stepClass_NoNullTest(item) ==
    STEP \o ToString(item.step)

Message_stepClass(item) ==
    IF item.step # Null THEN STEP \o ToString(item.step) ELSE <<>>

\* Variant of highlightClass with the branches of the conditional swapped.
highlightClass_Swapped(isHighlighted) ==
    IF isHighlighted THEN <<>> ELSE HIGHLIGHT

Message_highlightClass(isHighlighted) ==
    IF isHighlighted THEN HIGHLIGHT ELSE <<>>

\* Variant of className in which the block keeps the highlight once the
\* pointer has entered it, whatever isHighlighted says.
className_StickyHover(item, isHighlighted) ==
    MESSAGE \o SP \o ToString(item.format) \o SP
        \o (IF item.step # Null THEN STEP \o ToString(item.step) ELSE <<>>)
        \o SP \o (IF isHighlighted \/ nTriggers > 0 THEN HIGHLIGHT ELSE <<>>)

Message_className(item, isHighlighted) ==
    MESSAGE \o SP \o ToString(item.format) \o SP \o Message_stepClass(item)
        \o SP \o Message_highlightClass(isHighlighted)

\* Variant of the closure that never reaches handleMouseEnter.
onMouseEnter_NoCall(item, feedRef) ==
    << >>

\* The closure () => handleMouseEnter(item, feedRef), represented by the
\* sequence of handleMouseEnter invocations one firing of it makes.
Message_onMouseEnter(item, feedRef) ==
    << [item |-> item, feedRef |-> feedRef] >>

Message_children(item) ==
    << [tag |-> "h4", cls |-> "", text |-> ChildText(item.title)],
       [tag |-> "span", cls |-> "", text |-> ChildText(item.message)] >>

Message(p) ==
    [ className |-> Message_className(p.item, p.isHighlighted),
      onMouseEnter |-> Message_onMouseEnter(p.item, p.feedRef),
      children |-> Message_children(p.item) ]

\* ------------------------------------------------------------ AgentMessage
\* Variant of stepClass testing item.step for truthiness instead of !== null.
stepClass_Truthy(item) ==
    IF ToBoolean(item.step) THEN STEP \o ToString(item.step) ELSE <<>>

AgentMessage_stepClass(item) ==
    IF item.step # Null THEN STEP \o ToString(item.step) ELSE <<>>

\* Variant of highlightClass naming a different class.
highlightClass_Highlighted(isHighlighted) ==
    IF isHighlighted THEN HIGHLIGHT \o <<"e","d">> ELSE <<>>

AgentMessage_highlightClass(isHighlighted) ==
    IF isHighlighted THEN HIGHLIGHT ELSE <<>>

AgentMessage_className(item, isHighlighted) ==
    MESSAGE \o SP \o ToString(item.format) \o SP \o AgentMessage_stepClass(item)
        \o SP \o AgentMessage_highlightClass(isHighlighted)

AgentMessage_onMouseEnter(item, feedRef) ==
    << [item |-> item, feedRef |-> feedRef] >>

\* Variant of the children without the item.title && guard.
children_UnguardedTitle(item) ==
    << [tag |-> "span", cls |-> "agentMessageTitle badge badge-dark",
        text |-> ChildText(item.title)],
       [tag |-> "span", cls |-> "", text |-> ChildText(item.message)] >>

AgentMessage_children(item) ==
    (IF ToBoolean(item.title)
       THEN << [tag |-> "span", cls |-> "agentMessageTitle badge badge-dark",
                text |-> ChildText(item.title)] >>
       ELSE << >>)
    \o << [tag |-> "span", cls |-> "", text |-> ChildText(item.message)] >>

AgentMessage(p) ==
    [ className |-> AgentMessage_className(p.item, p.isHighlighted),
      onMouseEnter |-> AgentMessage_onMouseEnter(p.item, p.feedRef),
      children |-> AgentMessage_children(p.item) ]

\* ------------------------------------------------------------- transitions
Render(k, p) == IF k = "Message" THEN Message(p) ELSE AgentMessage(p)

Init ==
    /\ calls = <<>>
    /\ nCalls = 0
    /\ nTriggers = 0
    /\ kind \in Kinds
    /\ props \in Props
    /\ view = Render(kind, props)

\* The parent renders <Message .../> with props p.
RenderMessage ==
    \E p \in Props :
        /\ kind' = "Message"
        /\ props' = p
        /\ view' = Message(p)
        /\ calls' = <<>>
        /\ UNCHANGED <<nCalls, nTriggers>>

\* The parent renders <AgentMessage .../> with props p.
RenderAgentMessage ==
    \E p \in Props :
        /\ kind' = "AgentMessage"
        /\ props' = p
        /\ view' = AgentMessage(p)
        /\ calls' = <<>>
        /\ UNCHANGED <<nCalls, nTriggers>>

\* The pointer enters the rendered block: its onMouseEnter closure runs.
MouseEnter ==
    /\ nTriggers < MaxTriggers
    /\ nTriggers' = nTriggers + 1
    /\ calls' = calls \o view.onMouseEnter
    /\ nCalls' = nCalls + Len(view.onMouseEnter)
    /\ UNCHANGED <<kind, props, view>>

Next == RenderMessage \/ RenderAgentMessage \/ MouseEnter

Spec == Init /\ [][Next]_vars

TypeOK ==
    /\ kind \in Kinds
    /\ props \in Props
    /\ nTriggers \in 0 .. MaxTriggers

\* ------------------------------------------------- reading a class name
\* String.prototype.split(" "): the pieces between single spaces.
RECURSIVE Split(_)
Split(cs) ==
    IF cs = <<>> THEN << <<>> >>
    ELSE LET rest == Split(Tail(cs))
         IN  IF Head(cs) = " "
               THEN << <<>> >> \o rest
               ELSE << <<Head(cs)>> \o Head(rest) >> \o Tail(rest)

NonEmpty(cs) == cs # <<>>

\* The space-separated tokens of a class name, empty pieces dropped.
Tokens(cs) == SelectSeq(Split(cs), NonEmpty)

TokenSet(cs) == {Tokens(cs)[i] : i \in 1 .. Len(Tokens(cs))}

HasToken(cs, tok) == tok \in TokenSet(cs)

\* Components joined by single spaces, as the template literal joins them.
RECURSIVE JoinSpace(_)
JoinSpace(parts) ==
    IF Len(parts) = 1 THEN Head(parts)
    ELSE Head(parts) \o SP \o JoinSpace(Tail(parts))

\* A token of the form 'step' followed by something.
IsStepToken(tok) == Len(tok) >= Len(STEP) /\ SubSeq(tok, 1, Len(STEP)) = STEP

\* The token identifying step k.
StepToken(k) == STEP \o NumberToString(k)

\* The tokens item.format itself puts into the class name.
FormatTokens(item) == TokenSet(ToString(item.format))

\* Child elements by role.
IsTitleElement(e) == e.tag = "h4" \/ e.cls = "agentMessageTitle badge badge-dark"
IsMessageElement(e) == e.tag = "span" /\ e.cls = ""
TitleElements(v) == SelectSeq(v.children, IsTitleElement)
MessageElements(v) == SelectSeq(v.children, IsMessageElement)

Absent(v) == v = Undefined
EmptyOrAbsent(v) == v = Undefined \/ v = Str(<<>>)

\* ------------------------------------------------------------------ claims

\* C1: the className of the root block is 'message', item.format, the step
\* component ('step' + item.step if the item has a step, else empty) and the
\* highlight component ('highlight' if isHighlighted, else empty) joined by
\* spaces in this order, and its non-empty tokens are exactly the non-empty
\* components.  Stated for items whose format is a string.
C1_ClassNameIsJoinedComponents ==
    LET item == props.item
        stepPart == IF item.step.t = "number" THEN StepToken(item.step.n) ELSE <<>>
        highlightPart == IF props.isHighlighted THEN HIGHLIGHT ELSE <<>>
        parts == <<MESSAGE, item.format.s, stepPart, highlightPart>>
    IN  item.format.t = "string" =>
          /\ view.className = JoinSpace(parts)
          /\ Tokens(view.className) = SelectSeq(parts, NonEmpty)

\* C2 (as stated): with isHighlighted = true the class name contains the
\* token 'highlight'; with isHighlighted = false it contains no such token,
\* whatever item.format and item.step are.
C2_HighlightTokenIffHighlighted ==
    HasToken(view.className, HIGHLIGHT) <=> props.isHighlighted

\* C2 (amended): with isHighlighted = true the class name contains the token
\* 'highlight'; with isHighlighted = false it contains that token only if
\* item.format itself is that token.
C2_HighlightTokenFromFlagOrFormat ==
    /\ props.isHighlighted => HasToken(view.className, HIGHLIGHT)
    /\ (~props.isHighlighted /\ HasToken(view.className, HIGHLIGHT))
           => HIGHLIGHT \in FormatTokens(props.item)

C2_Witness ==
    /\ ~props.isHighlighted
    /\ props.item.format = Str(INFO)
    /\ props.item.step = Num(0)
    /\ ~HasToken(view.className, HIGHLIGHT)
    /\ nTriggers > 0

\* C3 (as stated): with step = null the class name contains no token of the
\* form 'step...' at all, for every format and isHighlighted.
C3_NoStepTokenWhenNull ==
    props.item.step = Null =>
        \A tok \in TokenSet(view.className) : ~IsStepToken(tok)

\* C3 (amended): with step = null the class name contains no token of the
\* form 'step...' other than a token item.format itself supplies.
C3_NoStepTokenWhenNullButFormat ==
    props.item.step = Null =>
        \A tok \in TokenSet(view.className) :
            IsStepToken(tok) => tok \in FormatTokens(props.item)

C3_Witness ==
    /\ props.item.step = Null
    /\ props.item.format = Str(INFO)
    /\ kind = "AgentMessage"
    /\ props.isHighlighted
    /\ Tokens(view.className) = <<MESSAGE, INFO, HIGHLIGHT>>

\* C4: with step = k, an integer (0 included), the class name contains the
\* token 'step' followed by k, and every other token of the form 'step...'
\* in it is one that item.format supplies, not the step component.
C4_StepTokenForStepK ==
    props.item.step.t = "number" =>
        /\ HasToken(view.className, StepToken(props.item.step.n))
        /\ \A tok \in TokenSet(view.className) :
               (IsStepToken(tok) /\ tok # StepToken(props.item.step.n))
                   => tok \in FormatTokens(props.item)

C4_Witness ==
    /\ props.item.step = Num(0)
    /\ kind = "AgentMessage"
    /\ HasToken(view.className, <<"s","t","e","p","0">>)

\* C5: an item without a step property contributes no step style: every
\* token of the form 'step...' in the class name is one item.format supplies.
C5_NoStepTokenWhenAbsent ==
    Absent(props.item.step) =>
        \A tok \in TokenSet(view.className) :
            IsStepToken(tok) => tok \in FormatTokens(props.item)

\* C6: AgentMessage renders a title element exactly when item.title is a
\* non-empty string, and the message element in either case; Message renders
\* its title element for every item, an empty one when item.title is empty
\* or absent.
C6_TitleElement ==
    /\ kind = "AgentMessage" =>
          /\ Len(TitleElements(view)) = (IF EmptyOrAbsent(props.item.title) THEN 0 ELSE 1)
          /\ \A i \in 1 .. Len(TitleElements(view)) :
                 TitleElements(view)[i].text = props.item.title.s
    /\ kind = "Message" =>
          /\ Len(TitleElements(view)) = 1
          /\ TitleElements(view)[1].text = ChildText(props.item.title)
          /\ EmptyOrAbsent(props.item.title) => TitleElements(view)[1].text = <<>>
    /\ Len(MessageElements(view)) = 1
    /\ MessageElements(view)[1].text = ChildText(props.item.message)
    /\ Len(view.children) = Len(TitleElements(view)) + 1

C6_Witness ==
    /\ kind = "AgentMessage"
    /\ props.item.title = Str(<<>>)
    /\ Len(view.children) = 1
    /\ view.children[1].text = <<"R","u","n">>

\* C7: every pointer-enter event invokes handleMouseEnter exactly once, with
\* the item and the feedRef of the render the block came from; the number of
\* invocations always equals the number of events, and a render makes none.
C7_OneCallPerTrigger ==
    /\ nCalls = nTriggers
    /\ Len(calls) <= nTriggers
    /\ \A i \in 1 .. Len(calls) :
           calls[i] = [item |-> props.item, feedRef |-> props.feedRef]
    /\ view.onMouseEnter = << [item |-> props.item, feedRef |-> props.feedRef] >>

C7_Witness ==
    /\ nTriggers = 2
    /\ nCalls = 2
    /\ Len(calls) = 1
    /\ calls[1].feedRef = "feedRefB"
    /\ calls[1].item.step = Num(10)

\* C8: rendering never fails, and a missing field contributes empty content:
\* a missing format or step puts no token into the class name, a missing
\* title or message leaves its element empty or omitted.
C8_MissingFieldsRenderEmpty ==
    LET item == props.item
        highlightPart == IF props.isHighlighted THEN <<HIGHLIGHT>> ELSE << >>
    IN  /\ (Absent(item.format) /\ item.step = Null) =>
               Tokens(view.className) = <<MESSAGE>> \o highlightPart
        /\ (Absent(item.step) /\ item.format = Str(INFO)) =>
               Tokens(view.className) = <<MESSAGE, INFO>> \o highlightPart
        /\ Absent(item.title) =>
               \A i \in 1 .. Len(TitleElements(view)) : TitleElements(view)[i].text = <<>>
        /\ Absent(item.message) =>
               \A i \in 1 .. Len(MessageElements(view)) : MessageElements(view)[i].text = <<>>

\* C9: for the same props the other component computes the same className,
\* the same message element and the same callback invocation as the mounted
\* one; the two differ only in the title element.
C9_SameButTitle ==
    LET other == IF kind = "Message" THEN AgentMessage(props) ELSE Message(props)
    IN  /\ view.className = other.className
        /\ view.onMouseEnter = other.onMouseEnter
        /\ MessageElements(view) = MessageElements(other)
        /\ Len(view.children) = Len(TitleElements(view)) + Len(MessageElements(view))
        /\ Len(other.children) = Len(TitleElements(other)) + Len(MessageElements(other))

C9_Witness ==
    /\ kind = "AgentMessage"
    /\ props.isHighlighted
    /\ props.item.step = Num(0)
    /\ Len(view.children) = 2
    /\ TitleElements(view) # TitleElements(Message(props))
    /\ nTriggers > 0

====
